---- MODULE Spec2Model ----
(***************************************************************************)
(* Model of lambda_function.py: the Factur-X request handler.              *)
(*                                                                         *)
(* One invocation of lambda_handler is a linear pipeline.  The external    *)
(* collaborators (json/base64 input, generate_from_binary, reportlab, gs,  *)
(* pdffonts, the file system) are the environment: each step draws the     *)
(* collaborator's outcome from a small set with \E.                        *)
(*                                                                         *)
(* Text is a sequence of one-character strings, bytes are sequences of     *)
(* numbers 0..255, base64 text is a sequence of alphabet indexes 0..63     *)
(* with 64 for "=" and 65 for a character outside the alphabet.            *)
(***************************************************************************)
EXTENDS Integers, Sequences, FiniteSets, TLC

VARIABLES
    pc,                  \* position of the invocation in lambda_handler
    event,               \* the request: [body, pdf, xml]
    pdf_binary,          \* decoded pdfBase64
    xml_binary,          \* decoded xmlBase64
    facturx_pdf,         \* result of generate_from_binary
    font_mapping,        \* result of register_liberation_fonts
    non_embedded_fonts,  \* result of analyze_fonts_in_pdf
    files,               \* the file system: path -> [exists, data]
    icc,                 \* what create_pdf_with_icc_profiles did
    gs_cmd,              \* the final rewrite command
    final_run,           \* outcome of the final rewrite run
    enhanced_pdf,        \* value returned by enhance_pdf_for_compliance
    exc,                 \* the exception in flight: [raised, msg]
    calls,               \* collaborators invoked so far
    fs_fault,            \* a file operation raised during this invocation
    response,            \* the returned envelope
    font_tool            \* the font tools' behaviour given to analyze_fonts_in_pdf

vars == <<pc, event, pdf_binary, xml_binary, facturx_pdf, font_mapping,
          non_embedded_fonts, files, icc, gs_cmd, final_run, enhanced_pdf,
          exc, calls, fs_fault, response, font_tool>>

(***************************************************************************)
(* Bounds.                                                                 *)
(***************************************************************************)
\* data lines of the pdffonts output after the preamble
MaxRows == 2

(***************************************************************************)
(* Python string operations, character by character.                       *)
(***************************************************************************)
UpperCase == <<"A","B","C","D","E","F","G","H","I","J","K","L","M",
               "N","O","P","Q","R","S","T","U","V","W","X","Y","Z">>
LowerCase == <<"a","b","c","d","e","f","g","h","i","j","k","l","m",
               "n","o","p","q","r","s","t","u","v","w","x","y","z">>

\* str.lower() on one character
lower_char(c) ==
    IF \E i \in 1..Len(UpperCase) : UpperCase[i] = c
    THEN LowerCase[CHOOSE i \in 1..Len(UpperCase) : UpperCase[i] = c]
    ELSE c

\* str.lower()
str_lower(s) == [i \in 1..Len(s) |-> lower_char(s[i])]

\* needle in hay
str_contains(needle, hay) ==
    \E k \in 0..(Len(hay) - Len(needle)) :
        \A j \in 1..Len(needle) : hay[k + j] = needle[j]

\* the characters str.split() and str.strip() treat as whitespace
Whitespace == {" ", "\t", "\r", "\n"}

\* the k-th smallest element of a set of positions
nth(S, k) == CHOOSE p \in S : Cardinality({q \in S : q < p}) = k - 1

\* s.split(sep) for a one-character sep: the pieces between consecutive
\* separators, empty pieces included
split_on(s, sep) ==
    LET cuts == {i \in 1..Len(s) : s[i] = sep}
        from(k) == IF k = 1 THEN 1 ELSE nth(cuts, k - 1) + 1
        upto(k) == IF k = Cardinality(cuts) + 1 THEN Len(s) ELSE nth(cuts, k) - 1
    IN  [k \in 1..(Cardinality(cuts) + 1) |-> SubSeq(s, from(k), upto(k))]

\* font_details.split('\n')
split_lines(text) == split_on(text, "\n")

\* line.split(): the maximal runs of characters that are not whitespace
split_ws(s) ==
    LET starts == {i \in 1..Len(s) : s[i] \notin Whitespace
                                       /\ (i = 1 \/ s[i - 1] \in Whitespace)}
        ends   == {i \in 1..Len(s) : s[i] \notin Whitespace
                                       /\ (i = Len(s) \/ s[i + 1] \in Whitespace)}
    IN  [k \in 1..Cardinality(starts) |-> SubSeq(s, nth(starts, k), nth(ends, k))]

\* line.strip() is non-empty
strip_nonempty(line) == \E i \in 1..Len(line) : line[i] \notin Whitespace

\* drop2 with a seeded fault: only one header line is skipped
drop2_one_header(seq) == IF Len(seq) <= 1 THEN <<>> ELSE SubSeq(seq, 2, Len(seq))

\* [2:]
drop2(seq) == IF Len(seq) <= 2 THEN <<>> ELSE SubSeq(seq, 3, Len(seq))

NoLiteral == <<"n", "o">>

\* the loop of lines 141-146 over the pdffonts output
parse_pdffonts(font_details) ==
    LET lines == drop2(split_lines(font_details))
        parts(i) == split_ws(lines[i])
    IN  { parts(i)[1] : i \in { k \in 1..Len(lines) :
                                  /\ strip_nonempty(lines[k])
                                  /\ Len(parts(k)) >= 8
                                  /\ str_contains(NoLiteral, str_lower(parts(k)[8])) } }

\* analyze_fonts_in_pdf: tool is [gs, pdffonts, stdout]; never raises
analyze_fonts_in_pdf(tool) ==
    IF tool.gs # "ok" THEN {}
    ELSE IF tool.pdffonts # "ok" THEN {}
    ELSE parse_pdffonts(tool.stdout)

(***************************************************************************)
(* The output of pdffonts (font_result.stdout, line 138): a preamble and    *)
(* data rows, each row a list of columns printed with a separator after a  *)
(* left padding, each line ended by a newline.                             *)
(***************************************************************************)
Col(a) == <<a>>

HeaderRow ==
    [pad |-> <<>>, sep |-> <<" ">>,
     cols |-> <<Col("n"), Col("t"), Col("e"), Col("m"), Col("s"), Col("u"), Col("o"), Col("I")>>]
RuleRow ==
    [pad |-> <<>>, sep |-> <<" ">>,
     cols |-> <<Col("-"), Col("-"), Col("-"), Col("-"), Col("-"), Col("-"), Col("-")>>]
\* eighth column "no"
ArialRow ==
    [pad |-> <<>>, sep |-> <<" ">>,
     cols |-> <<<<"A","r","i","a","l">>, Col("T"), Col("W"), Col("y"), Col("y"),
                Col("n"), Col("1"), <<"n","o">>>>]
\* nine columns, eighth column "kNOw", separated by two blanks
HelveticaRow ==
    [pad |-> <<>>, sep |-> <<" ", " ">>,
     cols |-> <<<<"H","E","L","V","E","T","I","C","A">>, Col("T"), Col("1"), Col("W"),
                Col("n"), Col("n"), Col("n"), <<"k","N","O","w">>, Col("0")>>]
\* eighth column "yes"
TimesRow ==
    [pad |-> <<>>, sep |-> <<" ">>,
     cols |-> <<<<"T","i","m","e","s">>, Col("T"), Col("W"), Col("n"), Col("n"),
                Col("n"), Col("2"), <<"y","e","s">>>>]
\* seven columns, the seventh "no"
ShortRow ==
    [pad |-> <<>>, sep |-> <<" ">>,
     cols |-> <<<<"a","r","i","a","l","7">>, Col("T"), Col("W"), Col("n"), Col("n"),
                Col("5"), <<"n","o">>>>]
\* a line of blanks
BlankRow == [pad |-> <<" ", "\t">>, sep |-> <<" ">>, cols |-> <<>>]
\* tab separated behind a left padding, eighth column "No"
TabRow ==
    [pad |-> <<" ">>, sep |-> <<"\t">>,
     cols |-> <<<<"x","+","a","R","I","A","L">>, Col("C"), Col("I"), Col("y"), Col("n"),
                Col("n"), Col("3"), <<"N","o">>>>]
\* eighth column "no", a name that is neither helvetica nor arial
AriaRow ==
    [pad |-> <<>>, sep |-> <<" ">>,
     cols |-> <<<<"A","r","i","a">>, Col("T"), Col("W"), Col("n"), Col("n"),
                Col("n"), Col("4"), <<"n","o">>>>]

DataRows == {ArialRow, HelveticaRow, TimesRow, ShortRow, BlankRow, TabRow, AriaRow}

\* what precedes the data rows: the two header lines pdffonts prints, or
\* fewer, or data where the header is expected
Preambles == {<<HeaderRow, RuleRow>>, <<HeaderRow>>, <<>>, <<ArialRow, HelveticaRow>>}

RECURSIVE join(_, _)
join(cols, sep) ==
    IF cols = <<>> THEN <<>>
    ELSE IF Len(cols) = 1 THEN cols[1]
    ELSE cols[1] \o sep \o join(Tail(cols), sep)

render_row(r) == r.pad \o join(r.cols, r.sep) \o <<"\n">>

RECURSIVE render(_)
render(rows) == IF rows = <<>> THEN <<>> ELSE render_row(Head(rows)) \o render(Tail(rows))

RowSeqs == UNION { [1..n -> DataRows] : n \in 0..MaxRows }

ToolOutcomes == {"ok", "nonzero", "missing"}

\* every behaviour of the two font tools: rows is the table stdout prints
FontToolRuns ==
    { [gs |-> "ok", pdffonts |-> "ok", rows |-> p \o d, stdout |-> render(p \o d)] :
          p \in Preambles, d \in RowSeqs }
    \cup { [gs |-> g, pdffonts |-> f, rows |-> <<>>, stdout |-> <<>>] :
          g \in ToolOutcomes, f \in ToolOutcomes }

NoFontTool == [gs |-> "none", pdffonts |-> "none", rows |-> <<>>, stdout |-> <<>>]

\* what one call of analyze_fonts_in_pdf can do: whether pdffonts was run
\* (gs succeeded), and the set returned
FontInventories == { <<t.gs = "ok", analyze_fonts_in_pdf(t)>> : t \in FontToolRuns }

(***************************************************************************)
(* base64, as the standard library computes it.                            *)
(***************************************************************************)
PadChar == 64

RECURSIVE b64encode(_)
\* base64.b64encode: three bytes to four characters, "=" padding
b64encode(b) ==
    IF Len(b) = 0 THEN <<>>
    ELSE IF Len(b) = 1
         THEN <<b[1] \div 4, (b[1] % 4) * 16, PadChar, PadChar>>
    ELSE IF Len(b) = 2
         THEN <<b[1] \div 4, (b[1] % 4) * 16 + b[2] \div 16, (b[2] % 16) * 4, PadChar>>
    ELSE <<b[1] \div 4, (b[1] % 4) * 16 + b[2] \div 16,
           (b[2] % 16) * 4 + b[3] \div 64, b[3] % 64>>
         \o b64encode(SubSeq(b, 4, Len(b)))

RECURSIVE a2b_base64(_, _, _, _, _)
\* the decoder loop behind base64.b64decode(s) with validate=False: characters
\* outside the alphabet are skipped, a complete pad run ends the input, and
\* an incomplete last quad is an error
a2b_base64(s, quad_pos, leftchar, pads, out) ==
    IF s = <<>>
    THEN [ok |-> quad_pos = 0, data |-> IF quad_pos = 0 THEN out ELSE <<>>]
    ELSE LET c == Head(s) IN
         IF c = PadChar
         THEN IF quad_pos >= 2 /\ quad_pos + pads + 1 >= 4
              THEN [ok |-> TRUE, data |-> out]
              ELSE a2b_base64(Tail(s), quad_pos, leftchar,
                              IF quad_pos >= 2 THEN pads + 1 ELSE pads, out)
         ELSE IF c > PadChar
         THEN a2b_base64(Tail(s), quad_pos, leftchar, pads, out)
         ELSE CASE quad_pos = 0 -> a2b_base64(Tail(s), 1, c, 0, out)
                [] quad_pos = 1 -> a2b_base64(Tail(s), 2, c % 16, 0,
                                              Append(out, leftchar * 4 + c \div 16))
                [] quad_pos = 2 -> a2b_base64(Tail(s), 3, c % 4, 0,
                                              Append(out, leftchar * 16 + c \div 4))
                [] OTHER        -> a2b_base64(Tail(s), 0, 0, 0,
                                              Append(out, leftchar * 64 + c))

\* b64decode with a seeded fault: an incomplete last quad is accepted
b64decode_lenient(s) == [ok |-> TRUE, data |-> a2b_base64(s, 0, 0, 0, <<>>).data]

\* base64.b64decode of a str payload
b64decode(s) == a2b_base64(s, 0, 0, 0, <<>>)

(***************************************************************************)
(* The request.                                                            *)
(***************************************************************************)
AbsentField == [t |-> "absent", s |-> <<>>, n |-> 0]
StrField(s) == [t |-> "str", s |-> s, n |-> 0]
NullField   == [t |-> "null", s |-> <<>>, n |-> 0]
NumField(n) == [t |-> "num", s |-> <<>>, n |-> n]

\* "JQ==", "JVA" newline "=", and "JQ" without its padding
PayloadSamples == {<<9, 16, 64, 64>>, <<9, 21, 0, 65, 64>>, <<9, 16>>}

Fields ==
    {AbsentField, NullField, NumField(0), NumField(7), StrField(<<>>)}
    \cup { StrField(s) : s \in PayloadSamples }

\* event['body']: no key, None, text that is no JSON, JSON that is no object,
\* or a JSON object with its two payload fields
Events ==
    { [body |-> b, pdf |-> AbsentField, xml |-> AbsentField] :
          b \in {"absent", "null", "invalid_json", "json_array"} }
    \cup { [body |-> "object", pdf |-> p, xml |-> x] : p \in Fields, x \in Fields }

\* body.get(key, ''): the value, '' when the key is absent
body_get(f) == IF f.t = "absent" THEN StrField(<<>>) ELSE f

\* Python truth value of a payload field
truthy(f) ==
    CASE f.t = "str"  -> f.s # <<>>
      [] f.t = "num"  -> f.n # 0
      [] OTHER        -> FALSE

\* missing_input with a seeded fault: both payloads must be missing
missing_input_both(pdf, xml) == ~truthy(pdf) /\ ~truthy(xml)

\* line 249: not pdf_base64 or not xml_base64
missing_input(pdf, xml) == ~truthy(pdf) \/ ~truthy(xml)

(***************************************************************************)
(* Responses (lines 250-259, 288-298, 307-316).                            *)
(***************************************************************************)
JsonHeaders ==
    ("Content-Type" :> "application/json") @@ ("Access-Control-Allow-Origin" :> "*")

NoResponse == [statusCode |-> 0, headers |-> [h \in {} |-> ""], body |-> [k \in {} |-> ""]]

response_400 ==
    [statusCode |-> 400, headers |-> JsonHeaders,
     body |-> ("error" :> "Missing PDF or XML data")]

SuccessMessage == "Factur-X PDF generated successfully with enhanced compliance"

response_200(pdf) ==
    [statusCode |-> 200, headers |-> JsonHeaders,
     body |-> ("pdfBase64" :> b64encode(pdf)) @@ ("message" :> SuccessMessage)]

\* error_text with a seeded fault: the exception's text alone
error_text_bare(msg) == msg

error_text(msg) == "Failed to generate Factur-X PDF: " \o msg

\* response_500 with a seeded fault: the CORS header is left out
response_500_no_cors(msg) ==
    [statusCode |-> 500, headers |-> ("Content-Type" :> "application/json"),
     body |-> ("error" :> error_text(msg))]

response_500(msg) ==
    [statusCode |-> 500, headers |-> JsonHeaders,
     body |-> ("error" :> error_text(msg))]

NoExc == [raised |-> FALSE, msg |-> ""]
Raise(msg) == [raised |-> TRUE, msg |-> msg]

(***************************************************************************)
(* The file system.                                                        *)
(***************************************************************************)
temp_in_path == "/tmp/tmpfx.pdf"
temp_out_path == temp_in_path \o ".enhanced.pdf"
temp_output_path == temp_out_path \o ".temp.pdf"
final_pdf_path == temp_in_path \o ".final.pdf"

Paths == {temp_in_path, temp_out_path, temp_output_path, final_pdf_path}

NoFile == [exists |-> FALSE, data |-> <<>>]
File(d) == [exists |-> TRUE, data |-> d]

\* os.rename(src, dst): dst is replaced
fs_rename(fs, src, dst) == [fs EXCEPT ![dst] = fs[src], ![src] = NoFile]
\* os.remove(path), os.unlink(path)
fs_remove(fs, path) == [fs EXCEPT ![path] = NoFile]
fs_write(fs, path, d) == [fs EXCEPT ![path] = File(d)]

(***************************************************************************)
(* The collaborators' outputs.                                             *)
(***************************************************************************)
\* what generate_from_binary returns: "%" and "%P"
EmbedderOutputs == {<<37>>, <<37, 80>>}
\* str(e) of what generate_from_binary raises
EmbedderErrors == {"", "XML validation failed"}
\* the file canvas.save() writes: "%R"
PlaceholderPdf == <<37, 82>>
\* gs writes its input recompiled: the input followed by one of these bytes
GsTrailers == {10, 255}
gs_output(data, trailer) == Append(data, trailer)
\* a file gs left half written
PartialPdf == <<37>>

(***************************************************************************)
(* register_liberation_fonts (lines 22-49).                                *)
(***************************************************************************)
liberation_fonts ==
    ("regular" :> "LiberationSans") @@ ("bold" :> "LiberationSans-Bold")
    @@ ("italic" :> "LiberationSans-Italic") @@ ("bolditalic" :> "LiberationSans-BoldItalic")

\* present: the styles whose file exists; broken: those registerFont rejects
register_liberation_fonts(present, broken) ==
    [style \in (DOMAIN liberation_fonts \cap present) \ broken |-> liberation_fonts[style]]

(***************************************************************************)
(* create_pdf_with_icc_profiles (lines 51-109).                            *)
(***************************************************************************)
SaveOutcomes == {"ok", "error", "error_partial"}
GsOutcomes == {"ok", "ok_no_output", "nonzero", "nonzero_partial", "missing"}

\* what the environment does during one call: canvas.save(), the two profile
\* files, os.rename, the gs run, os.remove, the restoring os.rename
IccEnvs ==
    [save : SaveOutcomes, srgb : BOOLEAN, gray : BOOLEAN, rename : BOOLEAN,
     gs : GsOutcomes, trailer : GsTrailers, remove : BOOLEAN, restore : BOOLEAN]

\* what gs leaves at its output path
gs_writes(fs, outcome, trailer, inp, outp) ==
    CASE outcome = "ok" /\ fs[inp].exists -> fs_write(fs, outp, gs_output(fs[inp].data, trailer))
      [] outcome = "nonzero_partial"      -> fs_write(fs, outp, PartialPdf)
      [] OTHER                            -> fs

IccResult(fs, e, status, fault, ran) ==
    [files |-> fs, exc |-> e, status |-> status, fault |-> fault, gs |-> ran]

create_pdf_with_icc_profiles(fs, output_path, e) ==
    LET temp_output == output_path \o ".temp.pdf"
        saved == fs_write(fs, output_path, PlaceholderPdf)
        moved == fs_rename(saved, output_path, temp_output)
        ran   == gs_writes(moved, e.gs, e.trailer, temp_output, output_path)
    IN  IF e.save # "ok"
        THEN IccResult(IF e.save = "error_partial"
                       THEN fs_write(fs, output_path, PartialPdf) ELSE fs,
                       Raise("canvas.save failed"), "raised", FALSE, FALSE)
        ELSE IF ~(e.srgb /\ e.gray)
        THEN IccResult(saved, NoExc, "skipped", FALSE, FALSE)
        ELSE IF ~e.rename
        THEN IccResult(saved, Raise("os.rename failed"), "raised", TRUE, FALSE)
        ELSE IF e.gs \in {"ok", "ok_no_output"} /\ e.remove
        THEN IccResult(fs_remove(ran, temp_output), NoExc, "embedded", FALSE, TRUE)
        ELSE IF e.restore
        THEN IccResult(fs_rename(ran, temp_output, output_path), NoExc, "restored",
                       e.gs \in {"ok", "ok_no_output"}, TRUE)
        ELSE IccResult(ran, Raise("os.rename failed"), "raised", TRUE, TRUE)

NoIcc == "none"

(***************************************************************************)
(* The final rewrite of enhance_pdf_for_compliance (lines 191-223).        *)
(***************************************************************************)
Arg(s) == [pre |-> s, name |-> <<>>, post |-> ""]
\* f"-dSubstituteFontName=/{font}/LiberationSans"
SubstituteArg(font) == [pre |-> "-dSubstituteFontName=/", name |-> font, post |-> "/LiberationSans"]
\* f'-sOutputFile={final_pdf_path}'
OutputFileArg(path) == [pre |-> "-sOutputFile=", name |-> <<>>, post |-> path]

gs_base_cmd ==
    <<Arg("gs"), Arg("-dPDFA=3"), Arg("-dBATCH"), Arg("-dNOPAUSE"), Arg("-dQUIET"),
      Arg("-dPDFACompatibilityPolicy=1"), Arg("-dPDFSETTINGS=/prepress"),
      Arg("-sDEVICE=pdfwrite")>>

Helvetica == <<"h","e","l","v","e","t","i","c","a">>
Arial == <<"a","r","i","a","l">>

\* needs_substitution with a seeded fault: the comparison is case-sensitive
needs_substitution_case_sensitive(font) ==
    str_contains(Helvetica, font) \/ str_contains(Arial, font)

\* line 204
needs_substitution(font) ==
    str_contains(Helvetica, str_lower(font)) \/ str_contains(Arial, str_lower(font))

\* the orders in which a for loop may visit a set
IterationOrders(S) ==
    { o \in [1..Cardinality(S) -> S] : \A i, j \in 1..Cardinality(S) : o[i] = o[j] => i = j }

RECURSIVE substitutions(_)
\* lines 202-206 over the fonts in the order visited
substitutions(order) ==
    IF order = <<>> THEN <<>>
    ELSE (IF needs_substitution(Head(order)) THEN <<SubstituteArg(Head(order))>> ELSE <<>>)
         \o substitutions(Tail(order))

\* rewrite_input_path with a seeded fault: the placeholder is given to the final rewrite
rewrite_input_placeholder == temp_out_path

\* the file the final rewrite is given to read
rewrite_input_path == temp_in_path

\* lines 194-209
build_gs_cmd(order) ==
    gs_base_cmd \o substitutions(order)
    \o <<OutputFileArg(final_pdf_path), Arg(rewrite_input_path)>>

FinalEnvs ==
    { [gs |-> "ok", trailer |-> t, read |-> r] : t \in GsTrailers, r \in BOOLEAN }
    \cup { [gs |-> g, trailer |-> 0, read |-> TRUE] : g \in GsOutcomes \ {"ok"} }

NoRun == [gs |-> "none", trailer |-> 0, read |-> TRUE]

\* subprocess.run(gs_cmd): gs reads its last argument and writes the -sOutputFile path
run_gs_cmd(fs, cmd, e) ==
    gs_writes(fs, e.gs, e.trailer, cmd[Len(cmd)].pre, cmd[Len(cmd) - 1].post)

\* lines 211-223: whether the try block reaches its return
rewrite_succeeded(fs, e) ==
    /\ e.gs \in {"ok", "ok_no_output"}
    /\ fs[final_pdf_path].exists
    /\ e.read

\* rewrite_result with a seeded fault: whatever is at the output path is returned
rewrite_result_reads_file(fs, e, input_pdf_bytes) == fs[final_pdf_path].data

\* lines 211-223: the bytes returned
rewrite_result(fs, e, input_pdf_bytes) ==
    IF rewrite_succeeded(fs, e) THEN fs[final_pdf_path].data ELSE input_pdf_bytes

\* cleanup_paths with a seeded fault: the final rewrite's output is forgotten
cleanup_paths_no_final == {temp_in_path, temp_out_path}

\* line 227
cleanup_paths == {temp_in_path, temp_out_path, final_pdf_path}

\* lines 225-232: stuck are the paths os.unlink fails on
cleanup(fs, stuck) ==
    [p \in Paths |-> IF p \in cleanup_paths /\ p \notin stuck THEN NoFile ELSE fs[p]]

(***************************************************************************)
(* lambda_handler, one action per step.                                    *)
(***************************************************************************)
NoEvent == [body |-> "absent", pdf |-> AbsentField, xml |-> AbsentField]
NoFiles == [p \in Paths |-> NoFile]
NoFonts == register_liberation_fonts({}, {})

Idle(start) ==
    /\ pc = start
    /\ pdf_binary = <<>>
    /\ xml_binary = <<>>
    /\ facturx_pdf = <<>>
    /\ font_mapping = NoFonts
    /\ non_embedded_fonts = {}
    /\ files = NoFiles
    /\ icc = NoIcc
    /\ gs_cmd = <<>>
    /\ final_run = NoRun
    /\ enhanced_pdf = <<>>
    /\ exc = NoExc
    /\ calls = {}
    /\ fs_fault = FALSE
    /\ response = NoResponse

Init ==
    /\ Idle("start")
    /\ event \in Events
    /\ font_tool = NoFontTool

\* lines 237-259: json.loads, body.get, the 400 answer
ParseAndValidate ==
    /\ pc = "start"
    /\ IF event.body = "null"
       THEN /\ exc' = Raise("the JSON object must be str, bytes or bytearray, not NoneType")
            /\ pc' = "except"
            /\ UNCHANGED response
       ELSE IF event.body = "invalid_json"
       THEN /\ exc' = Raise("Expecting value: line 1 column 1 (char 0)")
            /\ pc' = "except"
            /\ UNCHANGED response
       ELSE IF event.body = "json_array"
       THEN /\ exc' = Raise("'list' object has no attribute 'get'")
            /\ pc' = "except"
            /\ UNCHANGED response
       ELSE IF missing_input(body_get(event.pdf), body_get(event.xml))
       THEN /\ response' = response_400
            /\ pc' = "done"
            /\ UNCHANGED exc
       ELSE /\ pc' = "decode"
            /\ UNCHANGED <<exc, response>>
    /\ UNCHANGED <<event, pdf_binary, xml_binary, facturx_pdf, font_mapping,
                   non_embedded_fonts, files, icc, gs_cmd, final_run, enhanced_pdf,
                   calls, fs_fault, font_tool>>

\* lines 261-265: len() of both payloads, then base64.b64decode of both
DecodeBase64 ==
    /\ pc = "decode"
    /\ LET pdf == body_get(event.pdf)
           xml == body_get(event.xml)
       IN  IF pdf.t # "str" \/ xml.t # "str"
           THEN /\ exc' = Raise("object of type 'int' has no len()")
                /\ pc' = "except"
                /\ UNCHANGED <<pdf_binary, xml_binary>>
           ELSE IF ~b64decode(pdf.s).ok
           THEN /\ exc' = Raise("Incorrect padding")
                /\ pc' = "except"
                /\ UNCHANGED <<pdf_binary, xml_binary>>
           ELSE IF ~b64decode(xml.s).ok
           THEN /\ exc' = Raise("Incorrect padding")
                /\ pc' = "except"
                /\ pdf_binary' = b64decode(pdf.s).data
                /\ UNCHANGED xml_binary
           ELSE /\ pdf_binary' = b64decode(pdf.s).data
                /\ xml_binary' = b64decode(xml.s).data
                /\ pc' = "embed"
                /\ UNCHANGED exc
    /\ UNCHANGED <<event, facturx_pdf, font_mapping, non_embedded_fonts, files, icc,
                   gs_cmd, final_run, enhanced_pdf, calls, fs_fault, response, font_tool>>

\* lines 270-276: generate_from_binary returns a PDF or raises
Embed ==
    /\ pc = "embed"
    /\ calls' = calls \cup {"generate_from_binary"}
    /\ \/ \E out \in EmbedderOutputs :
             /\ facturx_pdf' = out
             /\ pc' = "temp_in"
             /\ UNCHANGED exc
       \/ \E msg \in EmbedderErrors :
             /\ exc' = Raise(msg)
             /\ pc' = "except"
             /\ UNCHANGED facturx_pdf
    /\ UNCHANGED <<event, pdf_binary, xml_binary, font_mapping, non_embedded_fonts,
                   files, icc, gs_cmd, final_run, enhanced_pdf, fs_fault, response,
                   font_tool>>

\* lines 172-177: the temporary input file is created and written, outside the try
CreateTempIn ==
    /\ pc = "temp_in"
    /\ calls' = calls \cup {"tempfile"}
    /\ \E written \in BOOLEAN :
          IF written
          THEN /\ files' = fs_write(files, temp_in_path, facturx_pdf)
               /\ pc' = "register"
               /\ UNCHANGED <<exc, fs_fault>>
          ELSE /\ files' = fs_write(files, temp_in_path, <<>>)
               /\ exc' = Raise("No space left on device")
               /\ fs_fault' = TRUE
               /\ pc' = "except"
    /\ UNCHANGED <<event, pdf_binary, xml_binary, facturx_pdf, font_mapping,
                   non_embedded_fonts, icc, gs_cmd, final_run, enhanced_pdf, response,
                   font_tool>>

\* line 181
RegisterFonts ==
    /\ pc = "register"
    /\ \E present \in SUBSET DOMAIN liberation_fonts :
       \E broken \in SUBSET present :
          font_mapping' = register_liberation_fonts(present, broken)
    /\ pc' = "analyze"
    /\ UNCHANGED <<event, pdf_binary, xml_binary, facturx_pdf, non_embedded_fonts,
                   files, icc, gs_cmd, final_run, enhanced_pdf, exc, calls, fs_fault,
                   response, font_tool>>

\* line 184: gs is run, pdffonts only after gs succeeded
AnalyzeFonts ==
    /\ pc = "analyze"
    /\ \E o \in FontInventories :
          /\ non_embedded_fonts' = o[2]
          /\ calls' = calls \cup {"gs"} \cup (IF o[1] THEN {"pdffonts"} ELSE {})
    /\ pc' = "icc"
    /\ UNCHANGED <<event, pdf_binary, xml_binary, facturx_pdf, font_mapping, files,
                   icc, gs_cmd, final_run, enhanced_pdf, exc, fs_fault, response,
                   font_tool>>

\* line 187: an exception leaves the try block for the finally clause
CreateIccPdf ==
    /\ pc = "icc"
    /\ \E e \in IccEnvs :
          LET r == create_pdf_with_icc_profiles(files, temp_out_path, e) IN
          /\ files' = r.files
          /\ exc' = r.exc
          /\ icc' = r.status
          /\ fs_fault' = (fs_fault \/ r.fault)
          /\ calls' = calls \cup {"canvas"} \cup (IF r.gs THEN {"gs"} ELSE {})
          /\ pc' = IF r.exc.raised THEN "cleanup" ELSE "rewrite"
    /\ UNCHANGED <<event, pdf_binary, xml_binary, facturx_pdf, font_mapping,
                   non_embedded_fonts, gs_cmd, final_run, enhanced_pdf, response,
                   font_tool>>

\* lines 191-223: the command is built and run, its output read
FinalRewrite ==
    /\ pc = "rewrite"
    /\ \E order \in IterationOrders(non_embedded_fonts) :
       \E e \in FinalEnvs :
          LET cmd == build_gs_cmd(order)
              fs  == run_gs_cmd(files, cmd, e)
          IN  /\ gs_cmd' = cmd
              /\ final_run' = e
              /\ files' = fs
              /\ enhanced_pdf' = rewrite_result(fs, e, facturx_pdf)
    /\ calls' = calls \cup {"gs"}
    /\ pc' = "cleanup"
    /\ UNCHANGED <<event, pdf_binary, xml_binary, facturx_pdf, font_mapping,
                   non_embedded_fonts, icc, exc, fs_fault, response, font_tool>>

\* lines 225-232, then the return or the exception reaches lambda_handler
Cleanup ==
    /\ pc = "cleanup"
    /\ \E stuck \in SUBSET { p \in cleanup_paths : files[p].exists } :
          /\ files' = cleanup(files, stuck)
          /\ fs_fault' = (fs_fault \/ stuck # {})
    /\ pc' = IF exc.raised THEN "except" ELSE "encode"
    /\ UNCHANGED <<event, pdf_binary, xml_binary, facturx_pdf, font_mapping,
                   non_embedded_fonts, icc, gs_cmd, final_run, enhanced_pdf, exc, calls,
                   response, font_tool>>

\* lines 285-298
Respond200 ==
    /\ pc = "encode"
    /\ response' = response_200(enhanced_pdf)
    /\ pc' = "done"
    /\ UNCHANGED <<event, pdf_binary, xml_binary, facturx_pdf, font_mapping,
                   non_embedded_fonts, files, icc, gs_cmd, final_run, enhanced_pdf, exc,
                   calls, fs_fault, font_tool>>

\* lines 300-316
Respond500 ==
    /\ pc = "except"
    /\ response' = response_500(exc.msg)
    /\ pc' = "done"
    /\ UNCHANGED <<event, pdf_binary, xml_binary, facturx_pdf, font_mapping,
                   non_embedded_fonts, files, icc, gs_cmd, final_run, enhanced_pdf, exc,
                   calls, fs_fault, font_tool>>

Next ==
    \/ ParseAndValidate
    \/ DecodeBase64
    \/ Embed
    \/ CreateTempIn
    \/ RegisterFonts
    \/ AnalyzeFonts
    \/ CreateIccPdf
    \/ FinalRewrite
    \/ Cleanup
    \/ Respond200
    \/ Respond500

Spec == Init /\ [][Next]_vars

(***************************************************************************)
(* analyze_fonts_in_pdf on its own: every behaviour of the font tools.     *)
(***************************************************************************)
InitFonts ==
    /\ Idle("fonts")
    /\ event = NoEvent
    /\ font_tool \in FontToolRuns

AnalyzeFontsCall ==
    /\ pc = "fonts"
    /\ non_embedded_fonts' = analyze_fonts_in_pdf(font_tool)
    /\ calls' = {"gs"} \cup (IF font_tool.gs = "ok" THEN {"pdffonts"} ELSE {})
    /\ pc' = "fonts_done"
    /\ UNCHANGED <<event, pdf_binary, xml_binary, facturx_pdf, font_mapping, files,
                   icc, gs_cmd, final_run, enhanced_pdf, exc, fs_fault, response,
                   font_tool>>

NextFonts == AnalyzeFontsCall

SpecFonts == InitFonts /\ [][NextFonts]_vars

(***************************************************************************)
(* Properties.                                                             *)
(***************************************************************************)
Returned == pc = "done"

\* C1: when lambda_handler returns, whatever the outcomes of font
\* registration, the font inventory, the placeholder creation, the ICC
\* imprint run and the final rewrite run were, none of the four files of the
\* invocation exists (the file operations themselves not failing).
C1_TempFilesRemoved ==
    (Returned /\ ~fs_fault) => \A p \in Paths : ~files[p].exists

\* C1 witness: returned after the ICC imprint run failed and the final
\* rewrite left a partial output, and nothing remains.
C1_Witness ==
    /\ Returned
    /\ ~fs_fault
    /\ "tempfile" \in calls
    /\ icc = "restored"
    /\ final_run.gs = "nonzero_partial"
    /\ \A p \in Paths : ~files[p].exists

\* the request lacks a payload: no body, or a key absent or empty
MissingPayload ==
    \/ event.body = "absent"
    \/ /\ event.body = "object"
       /\ \/ event.pdf \in {AbsentField, StrField(<<>>)}
          \/ event.xml \in {AbsentField, StrField(<<>>)}

\* C2: a request without pdfBase64 or xmlBase64 is answered 400 and nothing
\* else happens: no file is created, no collaborator is invoked.
C2_MissingPayloadIs400 ==
    MissingPayload =>
        /\ pc \in {"start", "done"}
        /\ Returned => response.statusCode = 400
        /\ calls = {}
        /\ files = NoFiles
        /\ ~exc.raised

\* C2 witness: a request with a well-formed PDF payload and no XML key was
\* answered 400.
C2_Witness ==
    /\ Returned
    /\ event.body = "object"
    /\ event.pdf = StrField(<<9, 16, 64, 64>>)
    /\ event.xml = AbsentField
    /\ response.statusCode = 400

\* the final rewrite ran and failed: non-zero exit, tool missing, or no
\* readable output file
FinalRewriteFailed ==
    \/ final_run.gs \in {"nonzero", "nonzero_partial", "missing", "ok_no_output"}
    \/ final_run.gs = "ok" /\ ~final_run.read

\* C3: when the final rewrite fails, enhance_pdf_for_compliance returns the
\* embedder's bytes, nothing is raised, and the answer is 200 with the base64
\* of exactly those bytes.
C3_RewriteFailureFallsBack ==
    FinalRewriteFailed =>
        /\ pc \in {"cleanup", "encode", "done"}
        /\ enhanced_pdf = facturx_pdf
        /\ ~exc.raised
        /\ Returned =>
              /\ response.statusCode = 200
              /\ b64decode(response.body["pdfBase64"]) = [ok |-> TRUE, data |-> facturx_pdf]

\* C3 witness: gs exited non-zero leaving a partial file, and the two-byte
\* embedder output was returned with status 200.
C3_Witness ==
    /\ Returned
    /\ final_run.gs = "nonzero_partial"
    /\ facturx_pdf = <<37, 80>>
    /\ response.statusCode = 200

\* C4: once generate_from_binary succeeded and the temporary input is
\* written, the answer is 200 whichever enhancement sub-step fails.
C4_EnhancementNeverAborts ==
    (Returned /\ facturx_pdf # <<>> /\ "canvas" \in calls) => response.statusCode = 200

\* generate_from_binary was called and raised
EmbeddingFailed == "generate_from_binary" \in calls /\ facturx_pdf = <<>>

\* C5: when generate_from_binary fails the answer is 500 with a non-empty
\* error message, and the enhancement is never entered: no file, no tool.
C5_EmbeddingFailureIs500 ==
    EmbeddingFailed =>
        /\ pc \in {"except", "done"}
        /\ calls = {"generate_from_binary"}
        /\ files = NoFiles
        /\ Returned =>
              /\ response.statusCode = 500
              /\ DOMAIN response.body = {"error"}
              /\ Len(response.body["error"]) > 0

\* C5 witness: the embedder raised an exception whose text is empty, and the
\* request was answered 500.
C5_Witness ==
    /\ Returned
    /\ EmbeddingFailed
    /\ exc.msg = ""
    /\ response.statusCode = 500

\* C6: every response carries Content-Type: application/json and
\* Access-Control-Allow-Origin: *.
C6_HeadersOnEveryResponse ==
    (Returned \/ response # NoResponse) =>
        /\ {"Content-Type", "Access-Control-Allow-Origin"} \subseteq DOMAIN response.headers
        /\ response.headers["Content-Type"] = "application/json"
        /\ response.headers["Access-Control-Allow-Origin"] = "*"

\* C6 witness: a 500 answer after a failure inside the enhancement.
C6_Witness ==
    /\ Returned
    /\ response.statusCode = 500
    /\ icc = "raised"
    /\ response.headers["Access-Control-Allow-Origin"] = "*"

\* a font name contains the word, whatever the case of its letters
ContainsAnyCase(font, word) ==
    \E k \in 0..(Len(font) - Len(word)) :
        \A j \in 1..Len(word) :
            \/ font[k + j] = word[j]
            \/ \E u \in 1..Len(UpperCase) : LowerCase[u] = word[j] /\ UpperCase[u] = font[k + j]

IsHelveticaOrArial(font) ==
    \/ ContainsAnyCase(font, <<"h","e","l","v","e","t","i","c","a">>)
    \/ ContainsAnyCase(font, <<"a","r","i","a","l">>)

DirectivesFor(font) ==
    { i \in 1..Len(gs_cmd) :
        gs_cmd[i] = [pre |-> "-dSubstituteFontName=/", name |-> font, post |-> "/LiberationSans"] }

\* C7: the final rewrite command holds exactly one substitution directive for
\* each non-embedded font whose name contains "helvetica" or "arial" in any
\* case, none for any other name, and ends with the output-file and the
\* input-file argument.
C7_SubstitutionDirectives ==
    gs_cmd # <<>> =>
        /\ \A f \in non_embedded_fonts :
              Cardinality(DirectivesFor(f)) = IF IsHelveticaOrArial(f) THEN 1 ELSE 0
        /\ \A i \in 1..Len(gs_cmd) :
              gs_cmd[i].name # <<>> =>
                  /\ gs_cmd[i].name \in non_embedded_fonts
                  /\ IsHelveticaOrArial(gs_cmd[i].name)
                  /\ i \in DirectivesFor(gs_cmd[i].name)
                  /\ i < Len(gs_cmd) - 1
        /\ gs_cmd[Len(gs_cmd) - 1] = [pre |-> "-sOutputFile=", name |-> <<>>, post |-> final_pdf_path]
        /\ gs_cmd[Len(gs_cmd)] = [pre |-> temp_in_path, name |-> <<>>, post |-> ""]

\* C7 witness: of two non-embedded fonts, "Aria" and "HELVETICA", only the
\* second got a directive.
C7_Witness ==
    /\ gs_cmd # <<>>
    /\ non_embedded_fonts = {<<"A","r","i","a">>, <<"H","E","L","V","E","T","I","C","A">>}
    /\ Cardinality(DirectivesFor(<<"H","E","L","V","E","T","I","C","A">>)) = 1
    /\ Len(gs_cmd) = Len(gs_base_cmd) + 3

\* a column contains "no" in any case
ReadsNo(col) ==
    \E i \in 1..(Len(col) - 1) : col[i] \in {"n", "N"} /\ col[i + 1] \in {"o", "O"}

\* the names the table printed by pdffonts marks: first column of the rows
\* after the first two whose eighth column reads no
MarkedNames(rows) ==
    { rows[i].cols[1] : i \in { k \in 3..Len(rows) :
                                  Len(rows[k].cols) >= 8 /\ ReadsNo(rows[k].cols[8]) } }

\* C8: analyze_fonts_in_pdf raises nothing; it returns the empty set when gs
\* or pdffonts fails or is missing, and otherwise the first-column names of
\* the lines after the two header lines whose eighth column contains "no".
C8_FontInventory ==
    pc = "fonts_done" =>
        /\ ~exc.raised
        /\ non_embedded_fonts =
              IF font_tool.gs = "ok" /\ font_tool.pdffonts = "ok"
              THEN MarkedNames(font_tool.rows) ELSE {}

\* C8 witness: a table with data in the header position, a blank line and a
\* tab-separated row, of which one name is returned.
C8_Witness ==
    /\ pc = "fonts_done"
    /\ font_tool.gs = "ok" /\ font_tool.pdffonts = "ok"
    /\ font_tool.rows = <<ArialRow, HelveticaRow, BlankRow, TabRow>>
    /\ non_embedded_fonts = {<<"x","+","a","R","I","A","L">>}

\* C9: the bytes enhance_pdf_for_compliance returns are determined by its
\* input and the outcome of the final rewrite alone, so they are the same
\* whether the ICC imprint succeeded, failed or was skipped; the final
\* rewrite is given the original input file.
C9_IccResultDiscarded ==
    (pc \in {"encode", "done"} /\ final_run.gs # "none") =>
        /\ enhanced_pdf =
              IF final_run.gs = "ok" /\ final_run.read
              THEN facturx_pdf \o <<final_run.trailer>> ELSE facturx_pdf
        /\ gs_cmd[Len(gs_cmd)].pre = temp_in_path

\* C9 witness: the ICC imprint succeeded, the final rewrite succeeded, and
\* the returned bytes are the rewritten input.
C9_Witness ==
    /\ Returned
    /\ icc = "embedded"
    /\ files = NoFiles
    /\ final_run.gs = "ok" /\ final_run.read
    /\ enhanced_pdf = <<37, 80, 255>>

\* the payload is text that base64 decodes
Decodable(f) == f.t = "str" /\ f.s \in {<<9, 16, 64, 64>>, <<9, 21, 0, 65, 64>>}

\* C10: lambda_handler always returns: every state short of the return has a
\* next step, the return is final and carries one envelope with status 200,
\* 400 or 500, and 200 only after both payloads decoded and the embedding
\* succeeded.
C10_HandlerIsTotal ==
    /\ ~Returned => (ENABLED Next) /\ response = NoResponse
    /\ Returned =>
          /\ ~ENABLED Next
          /\ response.statusCode \in {200, 400, 500}
          /\ response.statusCode = 200 =>
                /\ event.body = "object"
                /\ Decodable(event.pdf) /\ Decodable(event.xml)
                /\ "generate_from_binary" \in calls
                /\ facturx_pdf \in EmbedderOutputs

\* C10 witness: a payload with broken base64 padding was answered 500.
C10_Witness ==
    /\ Returned
    /\ event.body = "object"
    /\ event.pdf = StrField(<<9, 21, 0, 65, 64>>)
    /\ event.xml = StrField(<<9, 16>>)
    /\ response.statusCode = 500
    /\ calls = {}

====
